---------------------------- MODULE Spec2Model ----------------------------
(***************************************************************************)
(* bongoknob: the device communication engine of src/src/device.rs and the *)
(* message decoder / command encoder of src/src/protocol.rs.               *)
(*                                                                         *)
(* One worker thread (the closure spawned by Device::create) owns the      *)
(* serial port, the receive buffer, the single-slot line_buffer and the    *)
(* command_buffer (the correlation queue).  Caller threads reach it only   *)
(* through the crossbeam command channel (cmd_tx / cmd_rx) and read        *)
(* unsolicited messages from the crossbeam message channel (msg_tx /       *)
(* msg_rx), whose receiver is cloned by subscribe().                       *)
(*                                                                         *)
(* The wire is modelled in units: a unit is the newline byte, a byte that  *)
(* is not valid UTF-8, a fragment that is not JSON, or one "key":value     *)
(* member of a JSON object.  The value of a member is a number; the device *)
(* of the model writes the serial number of the record there, so that a    *)
(* record can be followed from the wire to the thread that gets it.  A     *)
(* negative number stands for a JSON value that does not parse as the type *)
(* the decoder expects for that key.                                       *)
(*                                                                         *)
(* The text of a command is modelled as the sequence of the pieces         *)
(* serde_json writes, and the port output as the sequence of those pieces  *)
(* and newlines.                                                           *)
(*                                                                         *)
(* Specifications: Spec (the engine with callers of command_response and   *)
(* command), SubSpec (the engine with subscribers), FairSpec (Spec with a  *)
(* fair worker), ProtoSpec (a device that answers each command in turn),   *)
(* AccessorSpec (the typed accessors), SendSpec (commands of every variant *)
(* and the operations that unwrap command()), DecodeSpec (the decoder on   *)
(* JSON objects over the keys of every variant), MalformedSpec (records    *)
(* that do not decode, with callers blocked), EventSpec (heartbeats and    *)
(* events on their way to the subscribers), FairAnswerSpec (callers of     *)
(* command_response, an answering device and a sound transport, all fair)  *)
(* and FairTrafficSpec (callers of command under any inbound traffic, with *)
(* a fair worker and writes that succeed).                                 *)
(***************************************************************************)
EXTENDS Integers, Sequences, FiniteSets

\* ------------------------------------------------------------- bounds
MaxRecords == 2     \* records the device sends in one run
MaxMembers == 2     \* members of a JSON object with keys of several variants
MaxCalls == 2       \* command() / command_response() calls in one run
NumSubs == 2        \* receivers handed out by subscribe() in one run

\* ------------------------------------------------- program constants
SerialBufSize == 1000      \* let mut serial_buf = [0; 1000]

Callers == {"a", "b"}      \* threads holding a clone of the Device handle
Subs == 1..NumSubs

None == <<>>
Some(x) == <<x>>

Min(a, b) == IF a <= b THEN a ELSE b

\* --------------------------------------------------------- wire units
Unit(key, val) == [k |-> key, v |-> val]
NL == Unit("nl", 0)                    \* b'\n'

\* The records the device of the model can send as its n-th record.
Heartbeat(n) == <<Unit("idle", n), NL>>
SettingsReply(n) == <<Unit("settings", n), NL>>
ErrorReply(n) == <<Unit("error", n), Unit("msg", n), NL>>
JunkRecord(n) == <<Unit("junk", n), NL>>
BadUtf8Record(n) == <<Unit("bad", n), NL>>
DeviceRecords(n) ==
    {Heartbeat(n), SettingsReply(n), ErrorReply(n), JunkRecord(n), BadUtf8Record(n)}

\* Records that do not decode: text that is not JSON, a JSON object that no
\* variant accepts, an empty line; and one record that does decode.
UnknownRecord(n) == <<Unit("other", n), NL>>
BlankRecord == <<NL>>
MalformedRecords(n) ==
    {JunkRecord(n), UnknownRecord(n), BlankRecord, SettingsReply(n)}

\* The unsolicited records, a heartbeat and a position event, and a reply.
PositionEvent(n) == <<Unit("p", n), NL>>
EventRecords(n) == {Heartbeat(n), PositionEvent(n), SettingsReply(n)}

\* The replies of the device, one of each reply-bearing variant.
SavedReply(n) == <<Unit("saved", n), NL>>
ProfilesReply(n) == <<Unit("current", n), Unit("profiles", n), NL>>
ProfileReply(n) == <<Unit("profile", n), NL>>
ReplyRecords(n) ==
    {SettingsReply(n), ProfilesReply(n), ProfileReply(n), SavedReply(n), ErrorReply(n)}

\* JSON objects over the keys of every variant, for the decoder: the keys a
\* Message can carry and one key no variant has, and for each key the values
\* of the model
MessageKeys ==
    <<"error", "msg", "idle", "saved", "p", "ks", "kd", "ku",
      "current", "profiles", "profile", "settings", "other">>
\* a value that parses as the type its key has in the decoder
WellTyped(v) == v >= 0
Values(key) ==
    CASE key = "ks" -> {0, 5, 10, 16, -1}
      [] key = "kd" -> {3, 300, -1}
      [] key = "ku" -> {4, 260, -1}
      [] key = "p" -> {7, -1}
      [] OTHER -> {1, -1}
\* the object with the members chosen by val, a function from a set of
\* indices of MessageKeys to values, in the order of MessageKeys
Object(val) ==
    LET chosen == SelectSeq([i \in DOMAIN MessageKeys |-> i],
                            LAMBDA i : i \in DOMAIN val) IN
    [j \in DOMAIN chosen |-> Unit(MessageKeys[chosen[j]], val[chosen[j]])]
\* the objects with the keys of the given indices and every choice of values
ObjectsWithKeys(indices) ==
    LET all == UNION {Values(MessageKeys[i]) : i \in indices} IN
    {Object(val) : val \in {f \in [indices -> all] :
                               \A i \in indices : f[i] \in Values(MessageKeys[i])}}
\* the records of the decoder's inputs: every object of up to MaxMembers
\* members over the keys of every variant, and every object over the four
\* keys of an Event
EventIndices == {i \in DOMAIN MessageKeys : MessageKeys[i] \in {"p", "ks", "kd", "ku"}}
DecodeRecords ==
    {Append(body, NL) :
        body \in UNION {ObjectsWithKeys(ks) :
                           ks \in {x \in SUBSET DOMAIN MessageKeys :
                                      \/ Cardinality(x) \in 1..MaxMembers
                                      \/ x # {} /\ x \subseteq EventIndices}}}
\* ------------------------------------------------------------ commands
\* A Command value: the variant and its payload.  The payload is a tuple: a
\* profile name, or the Option fields of the struct in declaration order.
GetProfiles == [op |-> "GetProfiles", arg |-> <<>>]
GetProfile(profile) == [op |-> "GetProfile", arg |-> <<profile>>]
SetProfile(profile) == [op |-> "SetProfile", arg |-> <<profile>>]
GetSettings == [op |-> "GetSettings", arg |-> <<>>]
Save == [op |-> "Save", arg |-> <<>>]
Load == [op |-> "Load", arg |-> <<>>]
Recalibrate == [op |-> "Recalibrate", arg |-> <<>>]
\* MessageDetails { title, text, duration }
ShowMessage(title, text, duration) ==
    [op |-> "ShowMessage", arg |-> <<title, text, duration>>]
\* ScreenData { title, data1, data2, data3, data4 }
SetScreen(title, data1, data2, data3, data4) ==
    [op |-> "SetScreen", arg |-> <<title, data1, data2, data3, data4>>]
\* Settings { debug, led_max_brightness, .. }: the model carries the first
\* two of its thirteen Option fields, which are all declared the same way
SetSettings(debug, led_max_brightness) ==
    [op |-> "SetSettings", arg |-> <<debug, led_max_brightness>>]

RequestCommands == {GetSettings}
NotifyCommands == {Save}

\* the payload values of the model
Names == {"P1", "P2"}
Opt(x) == {None, Some(x)}
\* every variant of Command, over the payload values of the model
Commands ==
    {GetProfiles, GetSettings, Save, Load, Recalibrate}
    \cup {GetProfile(p) : p \in Names}
    \cup {SetProfile(p) : p \in Names}
    \cup {ShowMessage(ti, te, du) :
              ti \in Opt("T"), te \in Opt("X"), du \in Opt("1.5")}
    \cup {SetScreen(ti, None, d2, None, None) : ti \in Opt("T"), d2 \in Opt("D")}
    \cup {SetSettings(de, le) : de \in Opt("true"), le \in Opt("7")}

\* serde_json text of an Option<String>: null or the quoted string
JsonOptString(o) == IF o = None THEN <<"null">> ELSE <<"\"", o[1], "\"">>
\* serde_json text of an Option of a number or bool: null or the literal
JsonOptLiteral(o) == IF o = None THEN <<"null">> ELSE <<o[1]>>
\* a field with skip_serializing_if = "Option::is_none": nothing, or the
\* member with the separator that follows it
JsonSkipNone(key, o, sep) == IF o = None THEN <<>> ELSE <<key, o[1], sep>>
\* the members of a Settings object: a comma between members, none after
\* the last
SettingsMembers(debug, led) ==
    JsonSkipNone("\"debug\":", debug, IF led = None THEN "" ELSE ",")
    \o JsonSkipNone("\"ledMaxBrightness\":", led, "")

\* Command::to_string: the JSON text of a command, as the sequence of the
\* pieces serde_json writes.  The members of an object come out in the order
\* of serde_json's map, which sorts the keys.
ToString(command) ==
    CASE command.op = "GetProfiles" -> <<"{\"profiles\":\"#all\"}">>
      [] command.op = "GetProfile" ->
             <<"{\"profile\":\"", command.arg[1], "\"}">>
      [] command.op = "SetProfile" ->
             <<"{\"current\":\"", command.arg[1], "\"}">>
      [] command.op = "GetSettings" -> <<"{\"settings\":\"?\"}">>
      [] command.op = "Save" -> <<"{\"save\":true}">>
      [] command.op = "Load" -> <<"{\"load\":true}">>
      [] command.op = "Recalibrate" -> <<"{\"recalibrate\":true}">>
      [] command.op = "ShowMessage" ->
             <<"{\"screen\":{\"duration\":">> \o JsonOptLiteral(command.arg[3])
             \o <<",\"text\":">> \o JsonOptString(command.arg[2])
             \o <<",\"title\":">> \o JsonOptString(command.arg[1])
             \o <<"}}">>
      [] command.op = "SetScreen" ->
             <<"{\"screen\":{\"data1\":">> \o JsonOptString(command.arg[2])
             \o <<",\"data2\":">> \o JsonOptString(command.arg[3])
             \o <<",\"data3\":">> \o JsonOptString(command.arg[4])
             \o <<",\"data4\":">> \o JsonOptString(command.arg[5])
             \o <<",\"title\":">> \o JsonOptString(command.arg[1])
             \o <<"}}">>
      [] command.op = "SetSettings" ->
             <<"{\"settings\":{">>
             \o SettingsMembers(command.arg[1], command.arg[2])
             \o <<"}}">>

\* ------------------------------------------------------- line framing
RECURSIVE Position(_, _)
\* buffer.iter().position(|&x| x == b'\n'), searching from index i; 0 = none
Position(b, i) ==
    IF i > Len(b) THEN 0
    ELSE IF b[i] = NL THEN i
    ELSE Position(b, i + 1)

RECURSIVE DrainLines(_)
\* the while-let loop of the read step: the lines drained from the buffer,
\* in order, each with its newline (buffer.drain(..=pos))
DrainLines(b) ==
    LET pos == Position(b, 1) IN
    IF pos = 0 THEN <<>>
    ELSE <<SubSeq(b, 1, pos)>> \o DrainLines(SubSeq(b, pos + 1, Len(b)))

RECURSIVE Remainder(_)
\* what the loop leaves in the buffer: the bytes after the last newline
Remainder(b) ==
    LET pos == Position(b, 1) IN
    IF pos = 0 THEN b ELSE Remainder(SubSeq(b, pos + 1, Len(b)))

\* String::from_utf8(line) is Ok
ValidUtf8(line) == \A i \in DOMAIN line : line[i].k # "bad"

\* ------------------------------------------------------------ decoding
\* the JSON text of a line: serde_json skips the trailing newline
Body(line) == SelectSeq(line, LAMBDA u : u # NL)
IsJson(body) == body # <<>> /\ \A i \in DOMAIN body : body[i].k # "junk"
Keys(body) == {body[i].k : i \in DOMAIN body}

\* the value of member key of a JSON object, as an Option
FieldValue(body, key) ==
    IF key \in Keys(body)
    THEN Some(body[CHOOSE i \in DOMAIN body : body[i].k = key].v)
    ELSE None


\* a struct field of a type other than Option: missing or ill-typed is an error
Required(body, key) == key \in Keys(body) /\ WellTyped(FieldValue(body, key)[1])
\* a struct field of type Option: missing is None, ill-typed is an error
Optional(body, key) == key \in Keys(body) => WellTyped(FieldValue(body, key)[1])

\* the derived Deserialize of each struct; a key the struct does not have is
\* skipped
DeviceErrorDecodes(body) == Required(body, "error") /\ Optional(body, "msg")
HeartbeatDecodes(body) == Required(body, "idle")
SavedDecodes(body) == Required(body, "saved")
ProfilesDecodes(body) == Required(body, "current") /\ Optional(body, "profiles")
ProfileRootDecodes(body) == Required(body, "profile")
SettingsRootDecodes(body) == Required(body, "settings")

EventKeys == {"p", "ks", "kd", "ku"}

\* EventVisitor::visit_map is Ok: no key outside the four, every value parses,
\* and p, kd or ku is there
EventDecodes(body) ==
    /\ Keys(body) \subseteq EventKeys
    /\ \A i \in DOMAIN body : WellTyped(body[i].v)
    /\ Keys(body) \cap {"p", "kd", "ku"} # {}

\* ks & (1 << i) != 0
Bit(ks, i) == (ks \div (2 ^ i)) % 2 = 1
\* the keys array of a KeyEvent
KeysOf(body) ==
    IF "ks" \in Keys(body)
    THEN [i \in 0..3 |-> Bit(FieldValue(body, "ks")[1], i)]
    ELSE [i \in 0..3 |-> FALSE]
\* AsU8 gone wrong: the id is not narrowed
AsU8Wide(n) == n
\* kd as u8, ku as u8
AsU8(n) == n % 256

\* the Event EventVisitor::visit_map returns when it is Ok
VisitMap(body) ==
    IF "p" \in Keys(body)
    THEN [kind |-> "Position", pos |-> FieldValue(body, "p")[1],
          keys |-> [i \in 0..3 |-> FALSE], id |-> 0]
    ELSE IF "kd" \in Keys(body)
    THEN [kind |-> "Down", pos |-> 0, keys |-> KeysOf(body),
          id |-> AsU8(FieldValue(body, "kd")[1])]
    ELSE [kind |-> "Up", pos |-> 0, keys |-> KeysOf(body),
          id |-> AsU8(FieldValue(body, "ku")[1])]

\* Variant gone wrong: Profiles is tried before Saved
VariantProfilesEarly(body) ==
    IF DeviceErrorDecodes(body) THEN "Error"
    ELSE IF HeartbeatDecodes(body) THEN "Heartbeat"
    ELSE IF ProfilesDecodes(body) THEN "Profiles"
    ELSE IF SavedDecodes(body) THEN "Saved"
    ELSE IF EventDecodes(body) THEN "Event"
    ELSE IF ProfileRootDecodes(body) THEN "Profile"
    ELSE IF SettingsRootDecodes(body) THEN "Settings"
    ELSE "NoMatch"

\* #[serde(untagged)] enum Message: the first variant that deserializes
Variant(body) ==
    IF DeviceErrorDecodes(body) THEN "Error"
    ELSE IF HeartbeatDecodes(body) THEN "Heartbeat"
    ELSE IF SavedDecodes(body) THEN "Saved"
    ELSE IF EventDecodes(body) THEN "Event"
    ELSE IF ProfilesDecodes(body) THEN "Profiles"
    ELSE IF ProfileRootDecodes(body) THEN "Profile"
    ELSE IF SettingsRootDecodes(body) THEN "Settings"
    ELSE "NoMatch"

\* Message::try_from(line): Ok(message) or Err(ParseError)
TryFrom(line) ==
    LET body == Body(line) IN
    IF IsJson(body) /\ Variant(body) # "NoMatch"
    THEN [ok |-> TRUE, variant |-> Variant(body), body |-> body,
          event |-> IF Variant(body) = "Event" THEN Some(VisitMap(body)) ELSE None]
    ELSE [ok |-> FALSE, variant |-> "ParseError", body |-> <<>>, event |-> None]

Unsolicited(m) == m.variant \in {"Heartbeat", "Event"}

\* ------------------------------------------------------------- results
OkResult(m) == [tag |-> "Ok", val |-> m.body, variant |-> m.variant]
\* Error::CommandError(e.error, e.msg)
CommandError(m) ==
    [tag |-> "CommandError",
     val |-> <<FieldValue(m.body, "error"), FieldValue(m.body, "msg")>>,
     variant |-> "Error"]
CommandSendError == [tag |-> "CommandSendError", val |-> <<>>, variant |-> ""]
\* Ok(()) of Device::command
OkUnit == [tag |-> "OkUnit", val |-> <<>>, variant |-> ""]

\* --------------------------------------------------------------- state
VARIABLES
    wire,            \* bytes the device has sent and the port has not yet returned
    portOut,         \* what the worker has written to the port, in order
    wpc,             \* worker: "read", "drain", "write", "dispatch" or "panicked"
    buffer,          \* let mut buffer = Vec::new()
    line_buffer,     \* let mut line_buffer: Option<String>
    command_buffer,  \* let mut command_buffer = Vec::new(): the reply senders
    cmd,             \* let cmd = command.to_string(), while it is being written
    cmdq,            \* the command channel (cmd_tx -> cmd_rx)
    msgq,            \* the message channel (msg_tx -> msg_rx)
    reply,           \* per caller: the bounded(1) reply channel of its call
    cpc,             \* per caller: "idle", "waiting" (blocked in rx.recv()) or
                     \* "panicked"
    call,            \* per caller: the operation whose rx.recv() it is blocked in
    result,          \* per caller: what its last call returned
    hasDev,          \* the Device handle or a clone of it is still held
    subscribed,      \* per subscriber: subscribe() has returned its receiver
    got,             \* per subscriber: the messages its receiver has yielded
    answered,        \* commands the device has answered
    \* history variables, read by no action guard except the bounds
    nsent,           \* records the device has sent
    ncalls,          \* calls made
    enqLog,          \* commands in the order they were put on the command channel
    reqLog,          \* callers of command_response, in the order of their sends
    replyLog,        \* serial numbers of the reply-bearing records sent
    pushedAtFirstReply, \* destinations pushed when the first of them was sent
    pubLog,          \* messages sent on the message channel, with the
                     \* subscribers that existed then
    lineSeenEmpty    \* line_buffer was filled while command_buffer was empty

workerVars == <<wpc, buffer, line_buffer, command_buffer, cmd, lineSeenEmpty>>
callerVars == <<cpc, call, result, hasDev, ncalls>>
subVars == <<subscribed, got>>
deviceVars == <<nsent, answered, replyLog, pushedAtFirstReply>>
vars == <<wire, portOut, wpc, buffer, line_buffer, command_buffer, cmd, cmdq,
          msgq, reply, cpc, call, result, hasDev, subscribed, got, nsent,
          answered, ncalls, enqLog, reqLog, replyLog, pushedAtFirstReply, pubLog,
          lineSeenEmpty>>

\* Device::create followed by one clone of the handle per caller thread
Init ==
    /\ wire = <<>>
    /\ portOut = <<>>
    /\ wpc = "read"
    /\ buffer = <<>>
    /\ line_buffer = None
    /\ command_buffer = <<>>
    /\ cmd = None
    /\ cmdq = <<>>
    /\ msgq = <<>>
    /\ reply = [t \in Callers |-> None]
    /\ cpc = [t \in Callers |-> "idle"]
    /\ call = [t \in Callers |-> ""]
    /\ result = [t \in Callers |-> None]
    /\ hasDev = TRUE
    /\ subscribed = [s \in Subs |-> FALSE]
    /\ got = [s \in Subs |-> <<>>]
    /\ nsent = 0
    /\ answered = 0
    /\ ncalls = 0
    /\ enqLog = <<>>
    /\ reqLog = <<>>
    /\ replyLog = <<>>
    /\ pushedAtFirstReply = None
    /\ pubLog = <<>>
    /\ lineSeenEmpty = FALSE

\* ------------------------------------------------------ channel states
\* some Sender of the command channel is alive (a Device handle exists)
SendersAlive == hasDev
\* cmd_rx is alive: the worker closure has not been dropped
CmdRxAlive == wpc # "panicked"
\* some Receiver of the message channel is alive: Device.messages or a clone
MsgReceiversAlive == SendersAlive \/ \E s \in Subs : subscribed[s]
\* the Sender of caller t's reply channel still exists: it travels in the
\* command channel and then rests in command_buffer
TxAlive(t) ==
    \/ \E i \in DOMAIN cmdq : cmdq[i].tx = Some(t)
    \/ \E i \in DOMAIN command_buffer : command_buffer[i] = t

PushedSoFar ==
    Len(reqLog) - Cardinality({i \in DOMAIN cmdq : cmdq[i].tx # None})

\* Unwind gone wrong: the reply senders outlive the worker
UnwindKeepsSenders ==
    /\ wpc' = "panicked"
    /\ buffer' = <<>>
    /\ line_buffer' = None
    /\ command_buffer' = command_buffer
    /\ cmd' = None
    /\ cmdq' = <<>>
    /\ lineSeenEmpty' = FALSE
    /\ wire' = <<>>

\* the worker closure unwinds after a panic: everything it owns is dropped,
\* and dropping cmd_rx discards the commands still in the channel
Unwind ==
    /\ wpc' = "panicked"
    /\ buffer' = <<>>
    /\ line_buffer' = None
    /\ command_buffer' = <<>>
    /\ cmd' = None
    /\ cmdq' = <<>>
    /\ lineSeenEmpty' = FALSE
    /\ wire' = <<>>

\* ------------------------------------------------------------ the device
\* record r goes on the wire
Emit(r) ==
    /\ wire' = wire \o r
    /\ nsent' = nsent + 1
    /\ LET m == TryFrom(r)
           bearing == ValidUtf8(r) /\ m.ok /\ ~Unsolicited(m) IN
       /\ replyLog' = IF bearing THEN Append(replyLog, nsent + 1) ELSE replyLog
       /\ pushedAtFirstReply' =
              IF bearing /\ replyLog = <<>> THEN Some(PushedSoFar)
              ELSE pushedAtFirstReply
    /\ UNCHANGED <<portOut, workerVars, cmdq, msgq, reply, callerVars, subVars,
                   enqLog, reqLog, pubLog>>

\* the device puts record r on the wire as its next record
DeviceSend(r) ==
    /\ wpc # "panicked"
    /\ nsent < MaxRecords
    /\ Emit(r)
    /\ answered' = answered

RECURSIVE Texts(_)
\* the texts the port has taken whole, each ended by its newline
Texts(out) ==
    LET pos == CHOOSE i \in DOMAIN out : out[i] = "\n" /\ \A j \in 1..(i - 1) : out[j] # "\n" IN
    IF \A i \in DOMAIN out : out[i] # "\n" THEN <<>>
    ELSE <<SubSeq(out, 1, pos - 1)>> \o Texts(SubSeq(out, pos + 1, Len(out)))

\* the reply of the device to a command text: the variant the operation that
\* sends the command expects, and Saved for Save and Load
ReplyTo(text, n) ==
    CASE text = ToString(GetSettings) -> SettingsReply(n)
      [] text = ToString(GetProfiles) -> ProfilesReply(n)
      [] text \in {ToString(Save), ToString(Load)} -> SavedReply(n)
      [] OTHER -> ProfileReply(n)

\* the device answers the oldest command it has not answered yet
DeviceAnswers ==
    /\ wpc # "panicked"
    /\ nsent < MaxRecords
    /\ answered < Len(Texts(portOut))
    /\ Emit(ReplyTo(Texts(portOut)[answered + 1], nsent + 1))
    /\ answered' = answered + 1

\* ------------------------------------------------- the worker: read step
\* line_buffer after the while-let loop has drained lines: each line
\* overwrites the one before it
LineBufferAfter(lines) ==
    IF lines = <<>> THEN line_buffer ELSE Some(lines[Len(lines)])

\* port.read(&mut serial_buf) returns Ok(t): t bytes are appended to buffer
\* and the complete lines are drained from it
ReadOk(t) ==
    /\ wpc = "read"
    /\ t \in 1..Min(Len(wire), SerialBufSize)
    /\ LET b == buffer \o SubSeq(wire, 1, t)
           lines == DrainLines(b) IN
       IF \E i \in DOMAIN lines : ~ValidUtf8(lines[i])
       THEN \* String::from_utf8(line).unwrap() panics
            Unwind
       ELSE /\ wpc' = "drain"
            /\ wire' = SubSeq(wire, t + 1, Len(wire))
            /\ buffer' = Remainder(b)
            /\ line_buffer' = LineBufferAfter(lines)
            /\ lineSeenEmpty' = (lines # <<>> /\ command_buffer = <<>>)
            /\ UNCHANGED <<command_buffer, cmd, cmdq>>
    /\ UNCHANGED <<portOut, msgq, reply, callerVars, subVars, deviceVars,
                   enqLog, reqLog, pubLog>>

\* port.read returns Err(TimedOut): nothing arrived within the timeout
ReadTimedOut ==
    /\ wpc = "read"
    /\ wire = <<>>
    /\ wpc' = "drain"
    /\ UNCHANGED <<wire, portOut, buffer, cmd, line_buffer, command_buffer,
                   lineSeenEmpty, cmdq, msgq, reply, callerVars, subVars,
                   deviceVars, enqLog, reqLog, pubLog>>

\* ReadError gone wrong: the bytes kept from earlier reads are thrown away
ReadErrorClearsBuffer ==
    /\ wpc = "read"
    /\ wpc' = "drain"
    /\ buffer' = <<>>
    /\ UNCHANGED <<wire, portOut, cmd, line_buffer, command_buffer,
                   lineSeenEmpty, cmdq, msgq, reply, callerVars, subVars,
                   deviceVars, enqLog, reqLog, pubLog>>

\* port.read returns any other Err: it is logged
ReadError ==
    /\ wpc = "read"
    /\ wpc' = "drain"
    /\ UNCHANGED <<wire, portOut, buffer, cmd, line_buffer, command_buffer,
                   lineSeenEmpty, cmdq, msgq, reply, callerVars, subVars,
                   deviceVars, enqLog, reqLog, pubLog>>

\* ------------------------------------------------ the worker: drain step
\* NextCommand gone wrong: the newest command is taken
NextCommandNewest == cmdq[Len(cmdq)]

\* the command try_recv takes from the channel
NextCommand == Head(cmdq)
RestCommands == Tail(cmdq)

\* Pushed gone wrong: the reply sender is dropped instead of pushed
PushedNever(entry) == command_buffer

\* Pushed gone wrong: a destination is pushed for every command
PushedAlways(entry) ==
    Append(command_buffer, IF entry.tx # None THEN entry.tx[1] ELSE "a")

\* command_buffer after the match on tx: Some(tx) is pushed, None is not
Pushed(entry) ==
    IF entry.tx # None THEN Append(command_buffer, entry.tx[1]) ELSE command_buffer

\* cmd_rx.try_recv() is Ok((command, tx)): the command is encoded and its
\* reply sender, if it has one, is pushed; the writes follow
DrainCommand ==
    /\ wpc = "drain"
    /\ cmdq # <<>>
    /\ cmdq' = RestCommands
    /\ cmd' = Some(ToString(NextCommand.command))
    /\ command_buffer' = Pushed(NextCommand)
    /\ wpc' = "write"
    /\ UNCHANGED <<wire, portOut, buffer, line_buffer, lineSeenEmpty, msgq,
                   reply, callerVars, subVars, deviceVars, enqLog, reqLog,
                   pubLog>>

\* what the port has taken when the k-th of write_all(cmd), write_all(b"\n")
\* and flush() is the first to fail
Written(k) ==
    IF k = 0 THEN <<>> ELSE IF k = 1 THEN cmd[1] ELSE cmd[1] \o <<"\n">>

\* WriteCommand gone wrong: the newline is not written
WriteCommandNoNewline ==
    /\ wpc = "write"
    /\ portOut' = portOut \o cmd[1]
    /\ cmd' = None
    /\ wpc' = "dispatch"
    /\ UNCHANGED <<wire, buffer, line_buffer, command_buffer, lineSeenEmpty,
                   cmdq, msgq, reply, callerVars, subVars, deviceVars, enqLog,
                   reqLog, pubLog>>

\* port.write_all(cmd.as_bytes()), port.write_all(b"\n") and port.flush()
\* are Ok
WriteCommand ==
    /\ wpc = "write"
    /\ portOut' = portOut \o cmd[1] \o <<"\n">>
    /\ cmd' = None
    /\ wpc' = "dispatch"
    /\ UNCHANGED <<wire, buffer, line_buffer, command_buffer, lineSeenEmpty,
                   cmdq, msgq, reply, callerVars, subVars, deviceVars, enqLog,
                   reqLog, pubLog>>

\* write_all or flush is Err after k of the two writes: the unwrap panics
DrainWriteFails(k) ==
    /\ wpc = "write"
    /\ k \in 0..2
    /\ portOut' = portOut \o Written(k)
    /\ Unwind
    /\ UNCHANGED <<msgq, reply, callerVars, subVars, deviceVars, enqLog,
                   reqLog, pubLog>>

\* cmd_rx.try_recv() is Err(Empty)
DrainEmpty ==
    /\ wpc = "drain"
    /\ cmdq = <<>>
    /\ SendersAlive
    /\ wpc' = "dispatch"
    /\ UNCHANGED <<wire, portOut, buffer, cmd, line_buffer, command_buffer,
                   lineSeenEmpty, cmdq, msgq, reply, callerVars, subVars,
                   deviceVars, enqLog, reqLog, pubLog>>

\* where the worker goes when try_recv is Err(Disconnected): the match arm
\* is empty, so the loop goes on
AfterDisconnected == "dispatch"

\* cmd_rx.try_recv() is Err(Disconnected): every Device handle was dropped
DrainDisconnected ==
    /\ wpc = "drain"
    /\ cmdq = <<>>
    /\ ~SendersAlive
    /\ wpc' = AfterDisconnected
    /\ UNCHANGED <<wire, portOut, buffer, cmd, line_buffer, command_buffer,
                   lineSeenEmpty, cmdq, msgq, reply, callerVars, subVars,
                   deviceVars, enqLog, reqLog, pubLog>>

\* --------------------------------------------- the worker: dispatch step
\* line_buffer is None
DispatchNone ==
    /\ wpc = "dispatch"
    /\ line_buffer = None
    /\ wpc' = "read"
    /\ UNCHANGED <<wire, portOut, buffer, cmd, line_buffer, command_buffer,
                   lineSeenEmpty, cmdq, msgq, reply, callerVars, subVars,
                   deviceVars, enqLog, reqLog, pubLog>>

Decoded == TryFrom(line_buffer[1])

\* the end of the Some(ref line) arm
LineDone ==
    /\ wpc' = "read"
    /\ line_buffer' = None
    /\ lineSeenEmpty' = FALSE

\* DispatchParseError gone wrong: the oldest destination is dropped with the
\* record
DispatchParseErrorPops ==
    /\ wpc = "dispatch"
    /\ line_buffer # None
    /\ ~Decoded.ok
    /\ command_buffer' = IF command_buffer = <<>> THEN <<>> ELSE Tail(command_buffer)
    /\ LineDone
    /\ UNCHANGED <<wire, portOut, buffer, cmd, cmdq, msgq, reply,
                   callerVars, subVars, deviceVars, enqLog, reqLog, pubLog>>

\* Message::try_from is Err(e): the error is logged
DispatchParseError ==
    /\ wpc = "dispatch"
    /\ line_buffer # None
    /\ ~Decoded.ok
    /\ LineDone
    /\ UNCHANGED <<wire, portOut, buffer, cmd, command_buffer, cmdq, msgq, reply,
                   callerVars, subVars, deviceVars, enqLog, reqLog, pubLog>>

\* DispatchUnsolicited gone wrong: the message is also sent to the oldest
\* destination
DispatchUnsolicitedDelivers ==
    /\ wpc = "dispatch"
    /\ line_buffer # None
    /\ Decoded.ok /\ Unsolicited(Decoded)
    /\ msgq' = Append(msgq, Decoded)
    /\ pubLog' = Append(pubLog,
           [msg |-> Decoded, subs |-> {s \in Subs : subscribed[s]}])
    /\ IF Len(command_buffer) > 0
       THEN /\ reply' = [reply EXCEPT ![Head(command_buffer)] = Some(OkResult(Decoded))]
            /\ command_buffer' = Tail(command_buffer)
       ELSE UNCHANGED <<reply, command_buffer>>
    /\ LineDone
    /\ UNCHANGED <<wire, portOut, buffer, cmd, cmdq, callerVars, subVars,
                   deviceVars, enqLog, reqLog>>

\* Message::Heartbeat(_) | Message::Event(_): message_pipe.send(message).unwrap()
DispatchUnsolicited ==
    /\ wpc = "dispatch"
    /\ line_buffer # None
    /\ Decoded.ok /\ Unsolicited(Decoded)
    /\ IF MsgReceiversAlive
       THEN /\ msgq' = Append(msgq, Decoded)
            /\ pubLog' = Append(pubLog,
                   [msg |-> Decoded, subs |-> {s \in Subs : subscribed[s]}])
            /\ LineDone
            /\ UNCHANGED <<wire, buffer, cmd, command_buffer, cmdq>>
       ELSE \* send fails on a channel without receivers: the unwrap panics
            /\ Unwind
            /\ UNCHANGED <<msgq, pubLog>>
    /\ UNCHANGED <<portOut, reply, callerVars, subVars, deviceVars,
                   enqLog, reqLog>>

\* ErrorDelivery gone wrong: the error message is delivered as a reply
ErrorDeliveryAsReply(m) == OkResult(m)

\* what the Message::Error arm sends to the destination it removed
ErrorDelivery(m) == CommandError(m)
\* what the catch-all arm sends to the destination it removed
ReplyDelivery(m) == OkResult(m)

\* Deliver gone wrong: the destination is left in the queue after the send
DeliverKeeps(value) ==
    /\ reply' = [reply EXCEPT ![Head(command_buffer)] = Some(value)]
    /\ command_buffer' = command_buffer

\* command_buffer.remove(0).send(value): the oldest destination gets value
Deliver(value) ==
    /\ reply' = [reply EXCEPT ![Head(command_buffer)] = Some(value)]
    /\ command_buffer' = Tail(command_buffer)

\* Message::Error(e)
DispatchError ==
    /\ wpc = "dispatch"
    /\ line_buffer # None
    /\ Decoded.ok /\ Decoded.variant = "Error"
    /\ IF Len(command_buffer) > 0
       THEN Deliver(ErrorDelivery(Decoded))
       ELSE \* Error::DeviceError is logged
            UNCHANGED <<reply, command_buffer>>
    /\ LineDone
    /\ UNCHANGED <<wire, portOut, buffer, cmd, cmdq, msgq, callerVars, subVars,
                   deviceVars, enqLog, reqLog, pubLog>>

\* the catch-all arm: Saved, Profiles, Profile, Settings
DispatchReply ==
    /\ wpc = "dispatch"
    /\ line_buffer # None
    /\ Decoded.ok /\ ~Unsolicited(Decoded) /\ Decoded.variant # "Error"
    /\ IF Len(command_buffer) > 0
       THEN Deliver(ReplyDelivery(Decoded))
       ELSE UNCHANGED <<reply, command_buffer>>
    /\ LineDone
    /\ UNCHANGED <<wire, portOut, buffer, cmd, cmdq, msgq, callerVars, subVars,
                   deviceVars, enqLog, reqLog, pubLog>>

\* ------------------------------------------------------------ the callers
\* what command_response does when self.commands.send fails
SendFailed(t) ==
    /\ result' = [result EXCEPT ![t] = Some(CommandSendError)]
    /\ UNCHANGED <<cpc, call, cmdq, enqLog, reqLog>>

\* Request gone wrong: the caller pushes its reply sender on the correlation
\* queue itself and sends the command without it
RequestPushes(t, command, api) ==
    /\ cpc[t] = "idle"
    /\ hasDev
    /\ ncalls < MaxCalls
    /\ command \in Commands
    /\ ncalls' = ncalls + 1
    /\ IF CmdRxAlive
       THEN /\ cmdq' = Append(cmdq, [command |-> command, tx |-> None])
            /\ command_buffer' = Append(command_buffer, t)
            /\ cpc' = [cpc EXCEPT ![t] = "waiting"]
            /\ call' = [call EXCEPT ![t] = api]
            /\ result' = [result EXCEPT ![t] = None]
            /\ enqLog' = Append(enqLog, command)
            /\ reqLog' = Append(reqLog, t)
       ELSE SendFailed(t) /\ UNCHANGED command_buffer
    /\ UNCHANGED <<wire, portOut, wpc, buffer, line_buffer, cmd, lineSeenEmpty,
                   msgq, reply, hasDev, subVars, deviceVars, pubLog>>

\* Device::command_response up to rx.recv(), called by operation api:
\* bounded(1), then send
Request(t, command, api) ==
    /\ cpc[t] = "idle"
    /\ hasDev
    /\ ncalls < MaxCalls
    /\ command \in Commands
    /\ ncalls' = ncalls + 1
    /\ IF CmdRxAlive
       THEN /\ cmdq' = Append(cmdq, [command |-> command, tx |-> Some(t)])
            /\ cpc' = [cpc EXCEPT ![t] = "waiting"]
            /\ call' = [call EXCEPT ![t] = api]
            /\ result' = [result EXCEPT ![t] = None]
            /\ enqLog' = Append(enqLog, command)
            /\ reqLog' = Append(reqLog, t)
       ELSE SendFailed(t)
    /\ UNCHANGED <<wire, portOut, workerVars, msgq, reply, hasDev, subVars,
                   deviceVars, pubLog>>

\* Device::command_response called by the user
CommandResponse(t, command) == Request(t, command, "command_response")
\* Device::get_settings, get_profiles and get_profile up to rx.recv()
get_settings(t) == Request(t, GetSettings, "get_settings")
get_profiles(t) == Request(t, GetProfiles, "get_profiles")
get_profile(t, profile) == Request(t, GetProfile(profile), "get_profile")

\* the variant each typed accessor matches on
Expected(api) ==
    CASE api = "get_settings" -> "Settings"
      [] api = "get_profiles" -> "Profiles"
      [] api = "get_profile" -> "Profile"

UnexpectedResponse(value) ==
    [tag |-> "UnexpectedResponse", val |-> value.val, variant |-> value.variant]

\* Matched gone wrong: every reply that is not a device error is taken
MatchedAny(api, value) == value

\* the match of a typed accessor on the Ok(message) of command_response
Matched(api, value) ==
    IF value.variant = Expected(api) THEN value
    ELSE IF value.variant = "Error" THEN CommandError([body |-> value.val])
    ELSE UnexpectedResponse(value)

\* what operation api returns when command_response returned value: the
\* accessors pass an Err on with ? and match on an Ok
Returned(api, value) ==
    IF api = "command_response" \/ value.tag # "Ok" THEN value
    ELSE Matched(api, value)

\* rx.recv() of command_response returns: a value, or Err when the Sender of
\* the reply channel was dropped without sending
RecvReply(t) ==
    /\ cpc[t] = "waiting"
    /\ IF reply[t] # None
       THEN /\ result' = [result EXCEPT ![t] = Some(Returned(call[t], reply[t][1]))]
            /\ reply' = [reply EXCEPT ![t] = None]
       ELSE /\ ~TxAlive(t)
            /\ result' = [result EXCEPT ![t] = Some(CommandSendError)]
            /\ UNCHANGED reply
    /\ cpc' = [cpc EXCEPT ![t] = "idle"]
    /\ call' = [call EXCEPT ![t] = ""]
    /\ UNCHANGED <<wire, portOut, workerVars, cmdq, msgq, hasDev, ncalls,
                   subVars, deviceVars, enqLog, reqLog, pubLog>>

\* Device::command: send with no reply sender; unwrapped tells whether the
\* caller unwraps the Result, and then an Err is a panic of its thread
Notify(t, command, unwrapped) ==
    /\ cpc[t] = "idle"
    /\ hasDev
    /\ ncalls < MaxCalls
    /\ command \in Commands
    /\ ncalls' = ncalls + 1
    /\ IF CmdRxAlive
       THEN /\ cmdq' = Append(cmdq, [command |-> command, tx |-> None])
            /\ result' = [result EXCEPT ![t] = Some(OkUnit)]
            /\ enqLog' = Append(enqLog, command)
            /\ UNCHANGED cpc
       ELSE /\ IF unwrapped
               THEN /\ cpc' = [cpc EXCEPT ![t] = "panicked"]
                    /\ result' = [result EXCEPT ![t] = None]
               ELSE /\ result' = [result EXCEPT ![t] = Some(CommandSendError)]
                    /\ UNCHANGED cpc
            /\ UNCHANGED <<cmdq, enqLog>>
    /\ UNCHANGED <<wire, portOut, workerVars, msgq, reply, call, hasDev, subVars,
                   deviceVars, reqLog, pubLog>>

\* Device::command called by the user
Command(t, command) == Notify(t, command, FALSE)
\* the operations that do self.command(..).unwrap(); Ok(())
set_screen(t, data) == Notify(t, [op |-> "SetScreen", arg |-> data], TRUE)
set_message(t, title, text, duration) ==
    Notify(t, ShowMessage(title, text, duration), TRUE)
save_settings(t) == Notify(t, Save, TRUE)
load_settings(t) == Notify(t, Load, TRUE)
recalibrate(t) == Notify(t, Recalibrate, TRUE)

\* the Device handle and every clone of it are dropped; a caller inside a
\* call borrows its handle, so none of them is in a call
DropDevice ==
    /\ hasDev
    /\ \A t \in Callers : cpc[t] = "idle"
    /\ hasDev' = FALSE
    /\ UNCHANGED <<wire, portOut, workerVars, cmdq, msgq, reply, cpc, call,
                   result, ncalls, subVars, deviceVars, enqLog, reqLog, pubLog>>

\* Device::subscribe: self.messages.clone()
Subscribe(s) ==
    /\ ~subscribed[s]
    /\ SendersAlive
    /\ subscribed' = [subscribed EXCEPT ![s] = TRUE]
    /\ UNCHANGED <<wire, portOut, workerVars, cmdq, msgq, reply, callerVars,
                   got, deviceVars, enqLog, reqLog, pubLog>>

\* Taken gone wrong: the receiver is handed the newest message
TakenNewest == msgq[Len(msgq)]

\* the message a receiver takes from the message channel: every clone of a
\* crossbeam Receiver takes from the same queue
Taken == Head(msgq)
LeftAfterTake == Tail(msgq)

\* recv() on a receiver returned by subscribe()
SubRecv(s) ==
    /\ subscribed[s]
    /\ msgq # <<>>
    /\ got' = [got EXCEPT ![s] = Append(got[s], Taken)]
    /\ msgq' = LeftAfterTake
    /\ UNCHANGED <<wire, portOut, workerVars, cmdq, reply, callerVars,
                   subscribed, deviceVars, enqLog, reqLog, pubLog>>

\* ---------------------------------------------------------- specification
WorkerStep ==
    \/ \E t \in 1..(MaxRecords * 3) : ReadOk(t)
    \/ ReadTimedOut
    \/ ReadError
    \/ DrainCommand
    \/ WriteCommand
    \/ \E k \in 0..2 : DrainWriteFails(k)
    \/ DrainEmpty
    \/ DrainDisconnected
    \/ DispatchNone
    \/ DispatchParseError
    \/ DispatchUnsolicited
    \/ DispatchError
    \/ DispatchReply

Next ==
    \/ \E r \in DeviceRecords(nsent + 1) : DeviceSend(r)
    \/ WorkerStep
    \/ \E t \in Callers : \E c \in RequestCommands : CommandResponse(t, c)
    \/ \E t \in Callers : RecvReply(t)
    \/ \E t \in Callers : \E c \in NotifyCommands : Command(t, c)
    \/ DropDevice

\* the engine with its callers: the device, the worker, command_response,
\* command and the drop of the handle
Spec == Init /\ [][Next]_vars

\* the engine with its subscribers: the device, the worker on an idle command
\* channel, subscribe, the receivers and the drop of the handle
SubNext ==
    \/ \E r \in DeviceRecords(nsent + 1) : DeviceSend(r)
    \/ \E t \in 1..(MaxRecords * 3) : ReadOk(t)
    \/ ReadTimedOut
    \/ ReadError
    \/ DrainEmpty
    \/ DrainDisconnected
    \/ DispatchNone
    \/ DispatchParseError
    \/ DispatchUnsolicited
    \/ DispatchError
    \/ DispatchReply
    \/ \E s \in Subs : Subscribe(s)
    \/ \E s \in Subs : SubRecv(s)
    \/ DropDevice

SubSpec == Init /\ [][SubNext]_vars

\* the engine with a device that answers each command in turn:
\* command_response(GetSettings) and command(Save) on a port that works
ProtoNext ==
    \/ DeviceAnswers
    \/ \E t \in 1..(MaxRecords * 3) : ReadOk(t)
    \/ ReadTimedOut
    \/ ReadError
    \/ DrainCommand
    \/ WriteCommand
    \/ DrainEmpty
    \/ DispatchNone
    \/ DispatchReply
    \/ \E t \in Callers : \E c \in RequestCommands : CommandResponse(t, c)
    \/ \E t \in Callers : RecvReply(t)
    \/ \E t \in Callers : \E c \in NotifyCommands : Command(t, c)

ProtoSpec == Init /\ [][ProtoNext]_vars

\* the typed accessors called from one thread, with a device that sends the
\* reply-bearing records in any order
AccessorNext ==
    \/ \E r \in ReplyRecords(nsent + 1) : DeviceSend(r)
    \/ \E t \in 1..(MaxRecords * 3) : ReadOk(t)
    \/ ReadTimedOut
    \/ ReadError
    \/ DrainCommand
    \/ WriteCommand
    \/ DrainEmpty
    \/ DispatchNone
    \/ DispatchError
    \/ DispatchReply
    \/ get_settings("a")
    \/ get_profiles("a")
    \/ \E p \in Names : get_profile("a", p)
    \/ RecvReply("a")

AccessorSpec == Init /\ [][AccessorNext]_vars

\* one thread sending commands of every variant, through command() and
\* through the operations that unwrap it, on a port whose writes can fail
SendNext ==
    \/ ReadTimedOut
    \/ ReadError
    \/ DrainCommand
    \/ WriteCommand
    \/ \E k \in 0..2 : DrainWriteFails(k)
    \/ DrainEmpty
    \/ DispatchNone
    \/ \E c \in Commands : Command("a", c)
    \/ \E c \in Commands : c.op = "SetScreen" /\ set_screen("a", c.arg)
    \/ set_message("a", Some("T"), None, Some("1.5"))
    \/ save_settings("a")
    \/ load_settings("a")
    \/ recalibrate("a")

SendSpec == Init /\ [][SendNext]_vars

\* the decoder on its inputs: the device sends one record out of
\* DecodeRecords and the worker reads and dispatches it
DecodeNext ==
    \/ (nsent = 0 /\ \E r \in DecodeRecords : DeviceSend(r))
    \/ \E t \in 1..(MaxMembers + 3) : ReadOk(t)
    \/ ReadTimedOut
    \/ ReadError
    \/ DrainEmpty
    \/ DispatchNone
    \/ DispatchParseError
    \/ DispatchUnsolicited
    \/ DispatchError
    \/ DispatchReply

DecodeSpec == Init /\ [][DecodeNext]_vars

\* records that do not decode, sent to a worker with callers blocked in
\* command_response and a subscriber
MalformedNext ==
    \/ \E r \in MalformedRecords(nsent + 1) : DeviceSend(r)
    \/ \E t \in 1..(MaxRecords * 2) : ReadOk(t)
    \/ ReadTimedOut
    \/ ReadError
    \/ DrainCommand
    \/ WriteCommand
    \/ DrainEmpty
    \/ DispatchNone
    \/ DispatchParseError
    \/ DispatchReply
    \/ \E t \in Callers : \E c \in RequestCommands : CommandResponse(t, c)
    \/ \E t \in Callers : RecvReply(t)
    \/ Subscribe(1)

MalformedSpec == Init /\ [][MalformedNext]_vars

\* the worker on a transport whose reads and writes do not fail
SoundPortStep ==
    \/ \E t \in 1..(MaxRecords * 2) : ReadOk(t)
    \/ ReadTimedOut
    \/ DrainCommand
    \/ WriteCommand
    \/ DrainEmpty
    \/ DispatchNone
    \/ DispatchReply

\* callers of command_response only, on a sound transport, with a device that
\* answers each command once
AnswerNext ==
    \/ DeviceAnswers
    \/ SoundPortStep
    \/ \E t \in Callers : \E c \in RequestCommands : CommandResponse(t, c)
    \/ \E t \in Callers : RecvReply(t)

\* the worker thread keeps stepping, the device answers what it was sent, and
\* a caller whose recv() can return does return
FairAnswerSpec ==
    /\ Init /\ [][AnswerNext]_vars
    /\ WF_vars(SoundPortStep)
    /\ WF_vars(DeviceAnswers)
    /\ \A t \in Callers : WF_vars(RecvReply(t))

\* the worker on a transport whose writes do not fail, under any inbound
\* traffic
WritingStep ==
    \/ \E t \in 1..(MaxRecords * 3) : ReadOk(t)
    \/ ReadTimedOut
    \/ ReadError
    \/ DrainCommand
    \/ WriteCommand
    \/ DrainEmpty
    \/ DispatchNone
    \/ DispatchParseError
    \/ DispatchUnsolicited
    \/ DispatchError
    \/ DispatchReply

\* callers of command on a handle that is kept, with a device that sends
\* what it likes
TrafficNext ==
    \/ \E r \in DeviceRecords(nsent + 1) : DeviceSend(r)
    \/ WritingStep
    \/ \E t \in Callers : \E c \in NotifyCommands : Command(t, c)

\* the worker thread keeps stepping
FairTrafficSpec == Init /\ [][TrafficNext]_vars /\ WF_vars(WritingStep)

\* heartbeats and events on their way to the subscribers: the device, the
\* worker on an idle command channel, subscribe and the receivers
EventNext ==
    \/ \E r \in EventRecords(nsent + 1) : DeviceSend(r)
    \/ \E t \in 1..(MaxRecords * 2) : ReadOk(t)
    \/ ReadTimedOut
    \/ ReadError
    \/ DrainEmpty
    \/ DispatchNone
    \/ DispatchUnsolicited
    \/ DispatchReply
    \/ \E s \in Subs : Subscribe(s)
    \/ \E s \in Subs : SubRecv(s)

EventSpec == Init /\ [][EventNext]_vars

\* the fairness the scheduler gives the worker thread: its loop has no
\* blocking call other than the read with a timeout, so it keeps stepping
FairSpec == Spec /\ WF_vars(WorkerStep)

\* ------------------------------------------------------ claim formulas
InSeq(x, seq) == \E i \in DOMAIN seq : seq[i] = x

\* the serial number of the record a delivered value was made from
Serial(value) ==
    IF value.tag = "Ok" THEN value.val[1].v ELSE value.val[1][1]

\* the worker takes a step
WorkerMoves == wpc' # wpc

\* C1: when every command_response command was sent and queued before the
\* first reply-bearing record arrived and the device sends no more such
\* records than commands, the value delivered to the caller of the i-th
\* command is the i-th reply-bearing record, however the records are split
\* or grouped in reads.
C1_RepliesInSendOrder ==
    (pushedAtFirstReply = Some(Len(reqLog)) /\ Len(replyLog) <= Len(reqLog))
    => \A i \in DOMAIN reqLog :
           reply[reqLog[i]] # None
           => /\ i <= Len(replyLog)
              /\ Serial(reply[reqLog[i]][1]) = replyLog[i]

\* the lines the worker holds for its dispatch step
PendingLines == IF line_buffer = None THEN <<>> ELSE <<line_buffer[1]>>
\* the bytes a step took from the wire
Consumed == SubSeq(wire, 1, Len(wire) - Len(wire'))

\* C2: every complete record a read step takes out of the receive buffer is
\* handed to the dispatch step, in arrival order: a read that completes k
\* records leaves k records to dispatch.
C2_EveryRecordSurfaced ==
    [][(wpc = "read" /\ wpc' = "drain")
       => PendingLines' = DrainLines(buffer \o Consumed)]_vars

\* C3: a message published while two or more subscribers exist is received by
\* each of them: for each such subscriber it is among the messages the
\* subscriber has got or still waiting for it in the channel.
C3_NoStealing ==
    \A i \in DOMAIN pubLog :
        Cardinality(pubLog[i].subs) >= 2
        => \A s \in pubLog[i].subs :
               InSeq(pubLog[i].msg, got[s]) \/ InSeq(pubLog[i].msg, msgq)

\* C4: a receiver returned by subscribe() yields only messages that were
\* published when it already existed.
C4_NotRetroactive ==
    \A s \in Subs : \A j \in DOMAIN got[s] :
        \E i \in DOMAIN pubLog :
            pubLog[i].msg = got[s][j] /\ s \in pubLog[i].subs

\* C5: once the worker is gone, (1) every caller blocked in command_response
\* can return: its reply channel holds a value or has lost its sender;
\* (2) a blocked caller that returns without a delivered value returns
\* CommandSendError; (3) a call made afterwards returns CommandSendError
\* and blocks nobody.
C5_NoHangOnceGone ==
    /\ [](wpc = "panicked"
          => \A t \in Callers :
                 cpc[t] = "waiting" => (reply[t] # None \/ ~TxAlive(t)))
    /\ [][\A t \in Callers :
              (wpc = "panicked" /\ cpc[t] = "waiting" /\ reply[t] = None
               /\ cpc'[t] = "idle")
              => result'[t] = Some(CommandSendError)]_vars
    /\ [][(wpc = "panicked" /\ ncalls' # ncalls)
          => /\ cpc' = cpc
             /\ \E t \in Callers :
                    /\ result'[t] = Some(CommandSendError)
                    /\ \A u \in Callers \ {t} : result'[u] = result[u]]_vars

\* C5 witness: the only call made was put on the command channel, its caller
\* blocked, the worker went away and the caller returned CommandSendError
C5_Witness ==
    /\ wpc = "panicked"
    /\ ncalls = 1
    /\ Len(reqLog) = 1
    /\ cpc[reqLog[1]] = "idle"
    /\ result[reqLog[1]] = Some(CommandSendError)

\* C6: once the Device handle and every clone are dropped, the worker loop
\* eventually exits.
C6_WorkerExits == (~hasDev) ~> (wpc \notin {"read", "drain", "dispatch"})

\* C7: a Saved, Profiles, Profile or Settings message that was read while the
\* correlation queue was empty is discarded by its dispatch step: nothing is
\* delivered and the queue is left as it is.
C7_ReadWhileEmptyIsDropped ==
    [][(/\ wpc = "dispatch"
        /\ line_buffer # None
        /\ lineSeenEmpty
        /\ Decoded.ok /\ ~Unsolicited(Decoded) /\ Decoded.variant # "Error"
        /\ WorkerMoves)
       => reply' = reply /\ command_buffer' = command_buffer]_vars

RECURSIVE Frames(_)
\* the bytes of a sequence of commands, each followed by one newline
Frames(commands) ==
    IF commands = <<>> THEN <<>>
    ELSE ToString(Head(commands)) \o <<"\n">> \o Frames(Tail(commands))

\* C8: while the worker runs, what it has written to the port is exactly the
\* commands taken from the channel so far, in the order they were put on it,
\* each once, and the channel holds the rest in that order.
C8_WriteOrder ==
    wpc # "panicked"
    => LET done == Len(enqLog) - Len(cmdq) - (IF wpc = "write" THEN 1 ELSE 0) IN
       /\ portOut = Frames(SubSeq(enqLog, 1, done))
       /\ [i \in DOMAIN cmdq |-> cmdq[i].command]
              = SubSeq(enqLog, Len(enqLog) - Len(cmdq) + 1, Len(enqLog))
       /\ wpc = "write" => cmd = Some(ToString(enqLog[done + 1]))

\* C8 witness: two different commands, one sent with command() and one with
\* command_response(), have both been written
C8_Witness ==
    /\ wpc # "panicked"
    /\ Len(portOut) = 4
    /\ portOut[1] # portOut[3]
    /\ Len(reqLog) = 1

\* the member of a line with the given key
Member(line, key) == CHOOSE i \in DOMAIN line : line[i].k = key

\* C9: the dispatch step of a DeviceError message removes exactly the oldest
\* destination and sends it Err(CommandError(error, msg)) with the text and
\* detail of the record, leaving the other destinations alone; with an empty
\* queue it delivers nothing, the queue stays empty and the worker goes on.
C9_DeviceErrorDispatch ==
    [][(/\ wpc = "dispatch"
        /\ line_buffer # None
        /\ Decoded.ok /\ Decoded.variant = "Error"
        /\ WorkerMoves)
       => LET line == line_buffer[1] IN
          /\ wpc' = "read"
          /\ IF command_buffer # <<>>
             THEN /\ command_buffer' = Tail(command_buffer)
                  /\ reply'[Head(command_buffer)] # None
                  /\ reply'[Head(command_buffer)][1].tag = "CommandError"
                  /\ reply'[Head(command_buffer)][1].val =
                         <<Some(line[Member(line, "error")].v),
                           IF \E i \in DOMAIN line : line[i].k = "msg"
                           THEN Some(line[Member(line, "msg")].v)
                           ELSE None>>
                  /\ \A t \in Callers \ {Head(command_buffer)} :
                         reply'[t] = reply[t]
             ELSE command_buffer' = <<>> /\ reply' = reply]_vars

\* C9 witness: a caller has been sent a CommandError while another
\* destination stayed in the queue
C9_Witness ==
    /\ wpc = "read"
    /\ command_buffer # <<>>
    /\ \E t \in Callers :
           reply[t] # None /\ reply[t][1].tag = "CommandError"

\* C10: no read step, whatever bytes or error it meets, and no dispatch of a
\* record that fails to decode stops the worker.
C10_WorkerSurvivesInput ==
    [][(\/ wpc = "read"
        \/ wpc = "dispatch" /\ line_buffer # None /\ ~Decoded.ok)
       => wpc' # "panicked"]_vars

\* C11: a write or flush of a command that fails does not stop the worker:
\* the step that follows the taking of a command never ends the loop.
C11_WriteFailureKeepsLoop ==
    [][wpc = "write" => wpc' # "panicked"]_vars

\* C12: a call of set_screen, set_message, save_settings, load_settings or
\* recalibrate made when the worker is gone returns Err(CommandSendError) to
\* its caller.
C12_TypedErrWhenGone ==
    [][(wpc = "panicked" /\ ncalls' # ncalls)
       => /\ cpc'["a"] = "idle"
          /\ result'["a"] = Some(CommandSendError)]_vars

\* the order in which the variants of Message are tried
Order == <<"Error", "Heartbeat", "Saved", "Event", "Profiles", "Profile", "Settings">>
\* the object has the member and its value parses
Parses(body, key) ==
    \E i \in DOMAIN body : body[i].k = key /\ body[i].v >= 0
\* the object has the member and its value does not parse
Spoilt(body, key) ==
    \E i \in DOMAIN body : body[i].k = key /\ body[i].v < 0
\* the required fields of a variant are all present and parse
RequiredPresent(variant, body) ==
    CASE variant = "Error" -> Parses(body, "error")
      [] variant = "Heartbeat" -> Parses(body, "idle")
      [] variant = "Saved" -> Parses(body, "saved")
      [] variant = "Event" ->
             Parses(body, "p") \/ Parses(body, "kd") \/ Parses(body, "ku")
      [] variant = "Profiles" -> Parses(body, "current")
      [] variant = "Profile" -> Parses(body, "profile")
      [] variant = "Settings" -> Parses(body, "settings")
\* the variant deserializes: its required fields are present and parse, no
\* optional field of it is present with a value that does not parse, and an
\* Event has no member other than p, ks, kd and ku
Deserializes(variant, body) ==
    /\ RequiredPresent(variant, body)
    /\ variant = "Error" => ~Spoilt(body, "msg")
    /\ variant = "Profiles" => ~Spoilt(body, "profiles")
    /\ variant = "Event" =>
           \A i \in DOMAIN body : body[i].k \in {"p", "ks", "kd", "ku"} /\ body[i].v >= 0
\* the first variant of Order that satisfies Test, or "NoMatch"
First(Test(_, _), body) ==
    LET sat == {i \in DOMAIN Order : Test(Order[i], body)} IN
    IF sat = {} THEN "NoMatch"
    ELSE Order[CHOOSE i \in sat : \A j \in sat : i <= j]
\* the line in line_buffer is a JSON object and decodes as First(Test) says
DecodesAsFirst(Test(_, _)) ==
    (line_buffer # None /\ IsJson(Body(line_buffer[1])))
    => LET want == First(Test, Body(line_buffer[1])) IN
       IF want = "NoMatch" THEN ~Decoded.ok
       ELSE Decoded.ok /\ Decoded.variant = want

\* C13 as stated: a JSON object decodes to the first variant, in the order
\* Error, Heartbeat, Saved, Event, Profiles, Profile, Settings, whose
\* required fields are all present and parse, whatever other members it
\* has, and decoding fails only when no variant has its required fields.
C13_FirstRequiredPresent == DecodesAsFirst(RequiredPresent)

\* C13 amended: a JSON object decodes to the first variant, in the order
\* Error, Heartbeat, Saved, Event, Profiles, Profile, Settings, that
\* deserializes: its required fields are present and parse, every optional
\* field of it that is present parses, and for Event the object has no
\* member other than p, ks, kd and ku; decoding fails only when no variant
\* deserializes.
C13_FirstThatDeserializes == DecodesAsFirst(Deserializes)

\* C13 witness: an object with the required fields of Saved and of Profiles
\* is in line_buffer and decodes to Saved
C13_Witness ==
    /\ wpc = "dispatch"
    /\ line_buffer # None
    /\ Parses(Body(line_buffer[1]), "saved")
    /\ Parses(Body(line_buffer[1]), "current")
    /\ Decoded.ok /\ Decoded.variant = "Saved"

\* the value of a member of the line in line_buffer
Field(key) ==
    LET body == Body(line_buffer[1]) IN
    body[CHOOSE i \in DOMAIN body : body[i].k = key].v
\* the line in line_buffer is an object over p, ks, kd, ku whose values parse
EventInput ==
    /\ line_buffer # None
    /\ LET body == Body(line_buffer[1]) IN
       /\ body # <<>>
       /\ \A i \in DOMAIN body : body[i].k \in {"p", "ks", "kd", "ku"} /\ body[i].v >= 0
\* the four key flags the claim gives: bits 0..3 of ks, all false without ks
Flags ==
    IF Parses(Body(line_buffer[1]), "ks")
    THEN [i \in 0..3 |-> (Field("ks") \div (2 ^ i)) % 2 = 1]
    ELSE [i \in 0..3 |-> FALSE]
\* the decoding of an object over p, ks, kd, ku, with Id(n) as the id made
\* of the number n of kd or ku
EventDecodesAs(Id(_)) ==
    EventInput
    => LET body == Body(line_buffer[1])
           ev == Decoded.event[1] IN
       IF Parses(body, "p")
       THEN /\ Decoded.ok /\ Decoded.variant = "Event"
            /\ ev.kind = "Position" /\ ev.pos = Field("p")
       ELSE IF Parses(body, "kd")
       THEN /\ Decoded.ok /\ Decoded.variant = "Event"
            /\ ev.kind = "Down" /\ ev.id = Id(Field("kd")) /\ ev.keys = Flags
       ELSE IF Parses(body, "ku")
       THEN /\ Decoded.ok /\ Decoded.variant = "Event"
            /\ ev.kind = "Up" /\ ev.id = Id(Field("ku")) /\ ev.keys = Flags
       ELSE ~Decoded.ok
SameNumber(n) == n
LowByte(n) == n % 256

\* C14 as stated: with p the result is Position(p), also when kd or ku is
\* there; otherwise with kd it is Key Down with id kd, otherwise with ku Key
\* Up with id ku, otherwise decoding fails; the key flags are bits 0..3 of
\* ks, all false without ks.
C14_EventIdIsNumber == EventDecodesAs(SameNumber)

\* C14 amended: the same, with the id being kd or ku narrowed to 8 bits (the
\* number modulo 256).
C14_EventIdIsLowByte == EventDecodesAs(LowByte)

\* C14 witness: {"ks":5,"kd":300} is in line_buffer and decodes to Key Down
\* with id 44 and keys 0 and 2 set
C14_Witness ==
    /\ wpc = "dispatch"
    /\ EventInput
    /\ Keys(Body(line_buffer[1])) = {"ks", "kd"}
    /\ Field("ks") = 5 /\ Field("kd") = 300
    /\ Decoded.event[1].kind = "Down"
    /\ Decoded.event[1].id = 44
    /\ Decoded.event[1].keys = [i \in 0..3 |-> i \in {0, 2}]

\* the variant the claim gives each typed accessor
Wanted(api) ==
    IF api = "get_settings" THEN "Settings"
    ELSE IF api = "get_profiles" THEN "Profiles"
    ELSE "Profile"

\* C15: when a typed accessor returns with a delivered reply, it returns Ok
\* exactly when the reply is Ok with the variant the accessor expects; a
\* reply of another reply-bearing variant gives Err(UnexpectedResponse) with
\* that message, and a device error reply gives Err(CommandError).
C15_TypedAccessors ==
    [][\A t \in Callers :
          (/\ cpc[t] = "waiting" /\ cpc'[t] = "idle"
           /\ reply[t] # None
           /\ call[t] \in {"get_settings", "get_profiles", "get_profile"})
          => LET value == reply[t][1]
                 out == result'[t][1] IN
             /\ out.tag = "Ok"
                    <=> (value.tag = "Ok" /\ value.variant = Wanted(call[t]))
             /\ (value.tag = "Ok" /\ value.variant # Wanted(call[t]))
                    => /\ out.tag = "UnexpectedResponse"
                       /\ out.variant = value.variant
                       /\ out.val = value.val
             /\ value.tag = "CommandError"
                    => out.tag = "CommandError" /\ out.val = value.val]_vars

\* C15 witness: get_profiles has returned UnexpectedResponse with the
\* Settings message it was sent
C15_Witness ==
    /\ cpc["a"] = "idle"
    /\ result["a"] # None
    /\ result["a"][1].tag = "UnexpectedResponse"
    /\ result["a"][1].variant = "Settings"
    /\ enqLog = <<GetProfiles>>

\* C16: the Saved record the device sends in answer to a Save that was sent
\* with command() is delivered to no caller.  (Here Save is only sent with
\* command(), so every Saved record is such an answer.)
C16_AckNeverDelivered ==
    \A t \in Callers : reply[t] # None => reply[t][1].variant # "Saved"

\* C17: the step that puts a command without reply sender on the command
\* channel is the whole call: its caller has Ok(()) and nobody is blocked,
\* while the worker and the port are as they were; and when the worker takes
\* such a command from the channel it leaves the correlation queue alone.
C17_NotifyReturnsAtOnce ==
    /\ [][(Len(cmdq') = Len(cmdq) + 1 /\ cmdq'[Len(cmdq')].tx = None)
          => /\ cpc' = cpc
             /\ \E t \in Callers :
                    /\ cpc[t] = "idle"
                    /\ result'[t] = Some(OkUnit)
                    /\ \A u \in Callers \ {t} : result'[u] = result[u]
             /\ wpc' = wpc /\ portOut' = portOut
             /\ command_buffer' = command_buffer]_vars
    /\ [][(wpc = "drain" /\ wpc' = "write" /\ Head(cmdq).tx = None)
          => command_buffer' = command_buffer]_vars

\* C17 witness: command(Save) has returned Ok(()), and the worker has taken
\* the Save from the channel, with nothing written and nothing queued
C17_Witness ==
    /\ wpc = "write"
    /\ cmd = Some(ToString(Save))
    /\ portOut = <<>>
    /\ command_buffer = <<>>
    /\ ncalls = 1
    /\ \E t \in Callers : result[t] = Some(OkUnit)

\* the fixed shape of the JSON object of each command
HasShape(command, text) ==
    CASE command = GetSettings -> text = <<"{\"settings\":\"?\"}">>
      [] command = GetProfiles -> text = <<"{\"profiles\":\"#all\"}">>
      [] command = Save -> text = <<"{\"save\":true}">>
      [] command = Load -> text = <<"{\"load\":true}">>
      [] command = Recalibrate -> text = <<"{\"recalibrate\":true}">>
      [] command.op = "GetProfile" ->
             text = <<"{\"profile\":\"", command.arg[1], "\"}">>
      [] command.op = "SetProfile" ->
             text = <<"{\"current\":\"", command.arg[1], "\"}">>
      [] command.op \in {"ShowMessage", "SetScreen"} ->
             /\ text[1] \in {"{\"screen\":{\"duration\":", "{\"screen\":{\"data1\":"}
             /\ text[Len(text)] = "}}"
             /\ \A i \in DOMAIN command.arg :
                    command.arg[i] # None => InSeq(command.arg[i][1], text)
      [] command.op = "SetSettings" ->
             /\ text[1] = "{\"settings\":{"
             /\ text[Len(text)] = "}}"
             /\ \A i \in DOMAIN command.arg :
                    command.arg[i] # None => InSeq(command.arg[i][1], text)

\* C18: while the worker runs, what it has written is one text per command
\* taken and written, each text the JSON object of the fixed shape of its
\* command and with no newline inside, each followed by exactly one newline;
\* the same command written twice gives the same text twice.
C18_Encoding ==
    wpc # "panicked"
    => LET done == Len(enqLog) - Len(cmdq) - (IF wpc = "write" THEN 1 ELSE 0)
           texts == Texts(portOut) IN
       /\ Len(texts) = done
       /\ Cardinality({i \in DOMAIN portOut : portOut[i] = "\n"}) = done
       /\ portOut # <<>> => portOut[Len(portOut)] = "\n"
       /\ \A i \in 1..done : HasShape(enqLog[i], texts[i])
       /\ \A i, j \in 1..done : enqLog[i] = enqLog[j] => texts[i] = texts[j]

\* C18 witness: a ShowMessage with a title and no text and a GetSettings have
\* both been written
C18_Witness ==
    /\ wpc # "panicked"
    /\ Len(Texts(portOut)) = 2
    /\ enqLog = <<ShowMessage(Some("T"), None, Some("1.5")), GetSettings>>

\* C19: a step that takes bytes from the wire, writes to the port or changes
\* the receive buffer, the line buffer or the correlation queue is a step of
\* the worker; a step of a caller (a call made, a call returning, the handle
\* dropped) changes none of them: it changes the command channel and the
\* caller's own reply channel and state only.
C19_OnlyWorkerTouches ==
    /\ [][(\/ Len(wire') < Len(wire)
           \/ portOut' # portOut
           \/ buffer' # buffer
           \/ line_buffer' # line_buffer
           \/ command_buffer' # command_buffer)
          => WorkerMoves]_vars
    /\ [][(cpc' # cpc \/ ncalls' # ncalls \/ hasDev' # hasDev)
          => /\ wpc' = wpc
             /\ UNCHANGED <<wire, portOut, buffer, line_buffer, command_buffer,
                            cmd, msgq>>]_vars

\* C19 witness: a caller is blocked in command_response, its command has been
\* written to the port and its destination is in the queue
C19_Witness ==
    /\ wpc = "dispatch"
    /\ portOut # <<>>
    /\ command_buffer # <<>>
    /\ cpc[Head(command_buffer)] = "waiting"

\* the command the worker took last from the channel
InFlight == enqLog[Len(enqLog) - Len(cmdq)]
\* caller t's command is still in the channel
Queued(t) == \E i \in DOMAIN cmdq : cmdq[i].tx = Some(t)

\* C20: when the worker writes the first byte of a command_response command,
\* the destination of that command is already the newest entry of the
\* correlation queue; and while the worker runs, every caller whose command
\* has left the channel and who has been sent no value yet has its
\* destination in the queue.
C20_PushedBeforeWritten ==
    /\ [][(portOut' # portOut /\ InFlight \in RequestCommands)
          => /\ command_buffer # <<>>
             /\ command_buffer[Len(command_buffer)] = reqLog[PushedSoFar]]_vars
    /\ [](wpc # "panicked"
          => \A t \in Callers :
                 (cpc[t] = "waiting" /\ reply[t] = None /\ ~Queued(t))
                 => InSeq(t, command_buffer))

\* C20 witness: a GetSettings of command_response has been taken from the
\* channel and none of it is written yet, with its caller's destination in
\* the queue
C20_Witness ==
    /\ wpc = "write"
    /\ cmd = Some(ToString(GetSettings))
    /\ portOut = <<>>
    /\ Len(command_buffer) = 1
    /\ cpc[command_buffer[1]] = "waiting"

\* C21: the dispatch step of a Heartbeat or Event message leaves the
\* correlation queue and every reply channel as they are; when the message
\* channel has a receiver the message is appended to it.
C21_UnsolicitedLeavesQueue ==
    [][(/\ wpc = "dispatch"
        /\ line_buffer # None
        /\ Decoded.ok /\ Unsolicited(Decoded)
        /\ WorkerMoves)
       => /\ command_buffer' = command_buffer
          /\ reply' = reply
          /\ MsgReceiversAlive => msgq' = Append(msgq, Decoded)]_vars

\* C21 witness: the one record sent, a Heartbeat, has been dispatched to the
\* message channel while a caller is blocked with its destination queued
C21_Witness ==
    /\ wpc = "read"
    /\ nsent = 1 /\ wire = <<>> /\ buffer = <<>>
    /\ Len(msgq) = 1
    /\ command_buffer # <<>>
    /\ \A t \in Callers : reply[t] = None

\* C22: the dispatch step of a record that does not decode changes nothing
\* but the line: the correlation queue, the message channel, what the
\* subscribers were sent and every reply channel stay as they are, and the
\* worker is at the read of its next iteration.
C22_UndecodableDropped ==
    [][(/\ wpc = "dispatch"
        /\ line_buffer # None
        /\ ~Decoded.ok
        /\ WorkerMoves)
       => /\ command_buffer' = command_buffer
          /\ msgq' = msgq /\ pubLog' = pubLog /\ got' = got
          /\ reply' = reply /\ result' = result /\ cpc' = cpc
          /\ line_buffer' = None
          /\ wpc' = "read"]_vars

\* C22 witness: the one record sent did not decode and is gone, with a
\* destination still queued, its caller still blocked and a subscriber
C22_Witness ==
    /\ wpc = "read"
    /\ nsent = 1 /\ replyLog = <<>>
    /\ wire = <<>> /\ buffer = <<>> /\ line_buffer = None
    /\ command_buffer # <<>>
    /\ subscribed[1]
    /\ \A t \in Callers : reply[t] = None /\ result[t] = None

\* a read step that took no byte from the transport: a timeout or an error
ReadFails == wpc = "read" /\ wpc' = "drain" /\ wire' = wire

\* C23: a read that times out or fails leaves the receive buffer and the
\* correlation queue as they are and leaves no line to dispatch, and the
\* worker goes on to the drain step of the same iteration; the drain step
\* does not make a line either, so the iteration dispatches nothing.
C23_FailedReadFrame ==
    [][/\ ReadFails
          => /\ buffer' = buffer
             /\ command_buffer' = command_buffer
             /\ line_buffer' = None
             /\ msgq' = msgq /\ reply' = reply
             /\ wpc' = "drain"
       /\ (wpc \in {"drain", "write"} /\ wpc' \in {"write", "dispatch"})
          => line_buffer' = line_buffer]_vars

\* C23 witness: the start of a record is in the buffer and its end still on
\* the transport, the reads since have taken nothing and dispatched nothing,
\* and the drain steps of their iterations have queued two destinations
C23_Witness ==
    /\ wpc = "write"
    /\ line_buffer = None
    /\ buffer # <<>> /\ wire # <<>>
    /\ Len(command_buffer) = 2
    /\ nsent = 1

\* C24: a read step that finds kept bytes in the buffer and delivers their
\* newline hands the dispatch step the record made of the kept bytes and
\* the rest of the record, and leaves in the buffer the bytes after the
\* last newline.
C24_SplitRecordSurfaced ==
    [][(/\ wpc = "read" /\ wpc' = "drain"
        /\ buffer # <<>>
        /\ Position(buffer \o Consumed, 1) # 0)
       => LET b == buffer \o Consumed IN
          /\ InSeq(SubSeq(b, 1, Position(b, 1)), PendingLines')
          /\ buffer' = Remainder(b)]_vars

\* the dispatch step of a reply-bearing message, DeviceError included
BearingDispatch ==
    /\ wpc = "dispatch"
    /\ line_buffer # None
    /\ Decoded.ok /\ ~Unsolicited(Decoded)
    /\ WorkerMoves

\* the callers whose reply channel is given a value by the step
Receivers == {t \in Callers : reply'[t] # None /\ reply'[t] # reply[t]}

\* the queue is the run of pushed destinations that were not removed yet, in
\* the order they were drained, and none of them has a value waiting
QueueIsWindow ==
    /\ \A i \in DOMAIN command_buffer : reply[command_buffer[i]] = None
    /\ \A i, j \in DOMAIN command_buffer :
          command_buffer[i] = command_buffer[j] => i = j
    /\ wpc # "panicked" =>
          command_buffer =
              SubSeq(reqLog, PushedSoFar - Len(command_buffer) + 1, PushedSoFar)

\* C25: a destination is given a value only when nothing waits in its
\* channel, a dispatched reply-bearing message goes to at most one
\* destination, and the correlation queue is the destinations of the
\* reply-expecting commands drained so far, in drain order, less its head
\* for each reply-bearing message (DeviceError included) dispatched on a
\* non-empty queue: a drain pushes at the tail, such a dispatch removes the
\* head and gives it the value, and no other step of a running worker
\* touches the queue or fills a reply channel.
C25_QueueAccounting ==
    /\ []QueueIsWindow
    /\ [][LET given == Receivers IN
          /\ \A t \in given : reply[t] = None
          /\ IF BearingDispatch
             THEN IF command_buffer # <<>>
                  THEN /\ command_buffer' = Tail(command_buffer)
                       /\ given = {Head(command_buffer)}
                  ELSE /\ command_buffer' = <<>>
                       /\ given = {}
             ELSE IF wpc = "drain" /\ wpc' = "write"
             THEN /\ command_buffer' = Pushed(Head(cmdq))
                  /\ given = {}
             ELSE /\ wpc' # "panicked" => command_buffer' = command_buffer
                  /\ given = {}]_vars

\* C25 witness: two destinations were pushed, the first was removed by a
\* reply-bearing message and holds its value, the second is still queued
C25_Witness ==
    /\ wpc # "panicked"
    /\ Len(reqLog) = 2 /\ PushedSoFar = 2
    /\ command_buffer = <<reqLog[2]>>
    /\ reply[reqLog[1]] # None
    /\ reply[reqLog[2]] = None

\* C26: with a device that answers every reply-expecting command once and a
\* transport that does not fail, every caller blocked in command_response
\* eventually returns.
C26_EveryCallReturns ==
    \A t \in Callers : (cpc[t] = "waiting") ~> (cpc[t] = "idle")

\* C27: on a transport whose writes succeed, every command put on the
\* command channel of a running worker is eventually written whole to the
\* transport, whatever the device sends.
C27_EnqueuedIsWritten ==
    \A i \in 1..MaxCalls :
        (Len(enqLog) >= i) ~> (Len(Texts(portOut)) >= i)

\* the place of a message in the arrival order: the serial of its record
Arrival(m) == m.body[1].v
\* the messages of seq are in arrival order
InArrivalOrder(seq) ==
    \A i, j \in DOMAIN seq : i < j => Arrival(seq[i]) < Arrival(seq[j])

\* C28: the messages published, the messages waiting on the event channel
\* and the messages each receiver has taken are in the order their records
\* arrived, and what a receiver has taken arrived before what still waits.
C28_ArrivalOrder ==
    /\ InArrivalOrder([i \in DOMAIN pubLog |-> pubLog[i].msg])
    /\ InArrivalOrder(msgq)
    /\ \A s \in Subs :
          /\ InArrivalOrder(got[s])
          /\ \A i \in DOMAIN got[s] : \A j \in DOMAIN msgq :
                Arrival(got[s][i]) < Arrival(msgq[j])

\* C28 witness: one receiver has taken a heartbeat and an event
C28_Witness ==
    \E s \in Subs :
        /\ Len(got[s]) = 2
        /\ {got[s][1].variant, got[s][2].variant} = {"Heartbeat", "Event"}

=============================================================================
